---- MODULE Spec2Model ----
(***************************************************************************)
(* A model of dualpriotest.c: the tick-by-tick simulator of dual priority  *)
(* scheduling of the synchronous arrival sequence (simulate_sas) and the   *)
(* searches built on it (FDMS, all phase change points, all priorities,    *)
(* RM priorities).                                                         *)
(*                                                                         *)
(* Tasks are indexed 0..NUM_TASKS-1 as in the C arrays.  A pointer to a    *)
(* task is modelled by the task's index and the null pointer by NULL.      *)
(***************************************************************************)
EXTENDS Integers, Sequences, FiniteSets, TLC

NUM_TASKS == 4
NULL == -1
NUM_PRIOS == 8

TaskIds == 0..(NUM_TASKS - 1)

VARIABLES
    ts,                     \* struct taskset_t: [tasks, hyper_period]
    entry,                  \* the function the driver called
    pc,                     \* position inside that function
    t,                      \* simulate_sas: the local t
    ret,                    \* the value returned to the driver
    trace,                  \* history: the task executed in each completed tick
                            \* (SpecFdms: the iterations of each completed call)
    generated_combinations, \* test_all_phase_change_points: local
    total_combinations,     \* test_all_phase_change_points: local
    generated_permutations  \* test_*_configurations_exhaustively: local

vars == <<ts, entry, pc, t, ret, trace, generated_combinations,
          total_combinations, generated_permutations>>

(***************************************************************************)
(* Convenience functions.                                                  *)
(***************************************************************************)
RECURSIVE gcd(_, _)
gcd(a, b) == IF b # 0 THEN gcd(b, a % b) ELSE a

\* A common multiple replaced by the larger of the two numbers.
larger_of(a, b) == IF a > b THEN a ELSE b

lcm(a, b) == (a \div gcd(a, b)) * b

RECURSIVE hyper_period_from(_, _, _)
hyper_period_from(periods, i, hp) ==
    IF i < NUM_TASKS
    THEN hyper_period_from(periods, i + 1, lcm(hp, periods[i]))
    ELSE hp

hyper_period(periods) == hyper_period_from(periods, 0, 1)

(***************************************************************************)
(* Functions for simulating dual-priority scheduling of the SAS.           *)
(***************************************************************************)
\* A reset that forgets the remaining execution.
reset_release_times_only(s) ==
    [s EXCEPT !.tasks = [i \in TaskIds |->
        [s.tasks[i] EXCEPT !.last_release_time = -1]]]

reset_simulation_state(s) ==
    [s EXCEPT !.tasks = [i \in TaskIds |->
        [s.tasks[i] EXCEPT !.last_release_time = -1, !.remaining_wcet = -1]]]

\* A test that takes a job with one unit left for finished.
is_active_above_one(task) == task.remaining_wcet > 1

\* A test that takes a finished job for an active one.
is_active_or_finished(task) == task.remaining_wcet >= 0

is_active(task) == task.remaining_wcet > 0

\* A release test that waits one time unit longer than the period.
can_release_late(task, now) ==
    \/ task.last_release_time < 0
    \/ now - task.last_release_time > task.period

can_release(task, now) ==
    IF task.last_release_time < 0
    THEN TRUE
    ELSE now - task.last_release_time >= task.period

release(task, now) ==
    [task EXCEPT !.last_release_time = now, !.remaining_wcet = task.wcet]

has_missed_deadline(task, now) == is_active(task) /\ can_release(task, now)

\* A priority that never leaves phase 1.
get_priority_phase_1_only(task, now) == task.phase_1_prio

\* A priority that changes phase at an instant counted from time 0.
get_priority_from_time_0(task, now) ==
    IF now < task.phase_change_point
    THEN task.phase_1_prio
    ELSE task.phase_2_prio

get_priority(task, now) ==
    IF now - task.last_release_time < task.phase_change_point
    THEN task.phase_1_prio
    ELSE task.phase_2_prio

\* A scan condition that lets a later task of equal priority win.
is_higher_or_equal_prio(prio, highest_prio) ==
    prio <= highest_prio \/ highest_prio < 0

\* The condition of the if inside the scan of get_highest_prio_active_task.
is_higher_prio(prio, highest_prio) == prio < highest_prio \/ highest_prio < 0

\* The for loop of get_highest_prio_active_task, from index i on.
RECURSIVE hp_scan(_, _, _, _, _)
hp_scan(s, now, i, highest_prio, hp_task) ==
    IF i >= NUM_TASKS THEN hp_task
    ELSE IF is_active(s.tasks[i])
              /\ is_higher_prio(get_priority(s.tasks[i], now), highest_prio)
         THEN hp_scan(s, now, i + 1, get_priority(s.tasks[i], now), i)
         ELSE hp_scan(s, now, i + 1, highest_prio, hp_task)

get_highest_prio_active_task(s, now) == hp_scan(s, now, 0, -1, NULL)

\* simulate_sas, "Check for deadline misses": the first task, in index order
\* from i on, that has missed its deadline, or NULL.
RECURSIVE miss_scan(_, _, _)
miss_scan(s, now, i) ==
    IF i >= NUM_TASKS THEN NULL
    ELSE IF has_missed_deadline(s.tasks[i], now) THEN i
    ELSE miss_scan(s, now, i + 1)

\* A miss check that reports the last task, in index order, that missed.
last_missed_deadline(s, now) ==
    IF \E i \in TaskIds : has_missed_deadline(s.tasks[i], now)
    THEN CHOOSE i \in TaskIds :
            /\ has_missed_deadline(s.tasks[i], now)
            /\ \A j \in TaskIds : has_missed_deadline(s.tasks[j], now) => j <= i
    ELSE NULL

first_missed_deadline(s, now) == miss_scan(s, now, 0)

\* simulate_sas, "Release new jobs from all ready tasks".
release_ready_tasks(s, now) ==
    [s EXCEPT !.tasks = [i \in TaskIds |->
        IF can_release(s.tasks[i], now)
        THEN release(s.tasks[i], now)
        ELSE s.tasks[i]]]

\* An execution step that takes two units from the job.
execute_two_units(s, hp_task) ==
    IF hp_task # NULL
    THEN [s EXCEPT !.tasks[hp_task].remaining_wcet = @ - 2]
    ELSE s

\* An execution step that takes the unit from the task's wcet.
execute_from_wcet(s, hp_task) ==
    IF hp_task # NULL
    THEN [s EXCEPT !.tasks[hp_task].wcet = @ - 1]
    ELSE s

\* simulate_sas, "Execute the highest-priority task": hp_task->remaining_wcet--.
execute(s, hp_task) ==
    IF hp_task # NULL
    THEN [s EXCEPT !.tasks[hp_task].remaining_wcet = @ - 1]
    ELSE s

\* A loop that stops one tick early, before the deadlines at hyper_period.
sas_loop_cond_exclusive(s, now) == now < s.hyper_period

\* The condition of the while loop of simulate_sas.
sas_loop_cond(s, now) == now <= s.hyper_period

\* The element of a singleton set.  A value bound through a singleton is
\* computed once, where an operator argument is computed at each use.
The(S) == CHOOSE x \in S : TRUE

\* One iteration of the while loop of simulate_sas in which no deadline is
\* missed: the task set after the releases and the execution of time now.
sas_tick(s, now) ==
    The({execute(rel, get_highest_prio_active_task(rel, now)) :
            rel \in {release_ready_tasks(s, now)}})

\* The while loop of simulate_sas from time now on: the task set as the loop
\* leaves it and the value returned.
RECURSIVE sas_loop(_, _)
sas_loop(s, now) ==
    IF ~sas_loop_cond(s, now) THEN [ts |-> s, ret |-> NULL]
    ELSE IF first_missed_deadline(s, now) # NULL
         THEN [ts |-> s, ret |-> first_missed_deadline(s, now)]
         ELSE The({sas_loop(nxt, now + 1) : nxt \in {sas_tick(s, now)}})

simulate_sas(s) == The({sas_loop(r, 0) : r \in {reset_simulation_state(s)}})

(***************************************************************************)
(* test_fdms_phase_change_points.                                          *)
(***************************************************************************)
\* (1) All the phase change points are set equal to the periods.
fdms_init(s) ==
    [s EXCEPT !.tasks = [i \in TaskIds |->
        [s.tasks[i] EXCEPT !.phase_change_point = s.tasks[i].period]]]

\* A decrease that leaves the point as it is.
keep_point(s, miss_task) == s

\* A decrease that always hits the first task.
decrease_first_point(s, miss_task) ==
    [s EXCEPT !.tasks[0].phase_change_point = @ - 1]

\* A decrease by two.
decrease_point_by_two(s, miss_task) ==
    [s EXCEPT !.tasks[miss_task].phase_change_point = @ - 2]

\* miss_task->phase_change_point--
decrease_point(s, miss_task) ==
    [s EXCEPT !.tasks[miss_task].phase_change_point = @ - 1]

\* One iteration of the while (1) loop, on the result r of simulate_sas:
\* what the function does next, the task set and the value returned.
fdms_iteration(r) ==
    IF r.ret = NULL THEN [pc |-> "done", ts |-> r.ts, ret |-> 1]
    ELSE IF r.ts.tasks[r.ret].phase_change_point > 0
         THEN [pc |-> "loop", ts |-> decrease_point(r.ts, r.ret), ret |-> NULL]
         ELSE [pc |-> "done", ts |-> r.ts, ret |-> 0]

(***************************************************************************)
(* test_all_phase_change_points.                                           *)
(***************************************************************************)
INT_MAX == 2147483647

\* The sum of two ints as a 32-bit machine addition yields it.
int_add(a, b) ==
    IF b > 0 /\ a > INT_MAX - b THEN ((a - INT_MAX) + (b - INT_MAX)) - 2
    ELSE IF b < 0 /\ a < (-INT_MAX - 1) - b
         THEN ((a + INT_MAX) + (b + INT_MAX)) + 2
         ELSE a + b

\* The product of an int and a non-negative int as a 32-bit machine
\* multiplication yields it.
RECURSIVE int_mul(_, _)
int_mul(a, b) ==
    The({IF y = 0 THEN 0
         ELSE The({IF y % 2 = 1 THEN int_add(h, x) ELSE h :
                     h \in {int_mul(int_add(x, x), y \div 2)}}) :
            x \in {a}, y \in {b}})

\* const long total_combinations = (period + 1) * ... * (period + 1);
total_combinations_of(s) ==
    int_mul(int_mul(int_mul(s.tasks[0].period + 1, s.tasks[1].period + 1),
                    s.tasks[2].period + 1),
            s.tasks[3].period + 1)

\* A for loop whose innermost counter starts at 1.
pcp_loop_init_one(level) == IF level = NUM_TASKS - 1 THEN 1 ELSE 0

\* for (int TNpcp = 0; ...
pcp_loop_init(level) == 0

\* A for loop that stops before the period.
pcp_below_period(s, level, x) == x < s.tasks[level].period

\* for (...; TNpcp <= ts->tasks[N-1].period; ...
pcp_in_range(s, level, x) == x <= s.tasks[level].period

\* ts->tasks[N-1].phase_change_point = TNpcp;
set_pcp(s, level, x) == [s EXCEPT !.tasks[level].phase_change_point = x]

\* A test that takes a miss for success.
is_miss(r) == r.ret # NULL

\* simulate_sas(ts) == NULL
is_schedulable(r) == r.ret = NULL

\* A body that lets the loop counter advance before it returns.
pcp_body_advancing(s, gen) ==
    The({[found |-> is_schedulable(r),
          ts |-> IF is_schedulable(r)
                 THEN set_pcp(r.ts, NUM_TASKS - 1,
                        r.ts.tasks[NUM_TASKS - 1].phase_change_point + 1)
                 ELSE r.ts,
          gen |-> gen + 1] :
            r \in {simulate_sas(s)}})

\* The body of the innermost loop: count the combination and simulate it.
pcp_body(s, gen) ==
    The({[found |-> is_schedulable(r), ts |-> r.ts, gen |-> gen + 1] :
            r \in {simulate_sas(s)}})

\* The for loop of the given level (0 is T1pcp) with its counter at x, and
\* the loops inside it: whether a schedulable combination was found, the
\* task set and generated_combinations as the loop leaves them.
RECURSIVE pcp_loop(_, _, _, _)
pcp_loop(s, level, x, gen) ==
    IF ~pcp_in_range(s, level, x)
    THEN [found |-> FALSE, ts |-> s, gen |-> gen]
    ELSE The({IF r.found THEN r ELSE pcp_loop(r.ts, level, x + 1, r.gen) :
                r \in {IF level = NUM_TASKS - 1
                       THEN pcp_body(s1, gen)
                       ELSE pcp_loop(s1, level + 1, pcp_loop_init(level + 1), gen) :
                          s1 \in {set_pcp(s, level, x)}}})

\* The end of the function, after the loops: the assertion and return 0.
pcp_exhausted(gen, total) ==
    IF gen = total THEN [pc |-> "done", ret |-> 0]
    ELSE [pc |-> "abort", ret |-> NULL]

test_all_phase_change_points(s) ==
    The({IF r.found
         THEN [pc |-> "done", ret |-> 1, ts |-> r.ts]
         ELSE [pc |-> pcp_exhausted(r.gen, total_combinations_of(s)).pc,
               ret |-> pcp_exhausted(r.gen, total_combinations_of(s)).ret,
               ts |-> r.ts] :
            r \in {pcp_loop(s, 0, pcp_loop_init(0), 0)}})

\* The same loops, from the test of the loop of the given level with its
\* counter at x up to the next execution of the innermost body: whether
\* there is one, and the task set with the phase change points assigned on
\* the way.  The counter of an enclosing loop is the phase change point that
\* loop assigned.
RECURSIVE pcp_for(_, _, _)
pcp_for(s, level, x) ==
    IF pcp_in_range(s, level, x)
    THEN IF level = NUM_TASKS - 1
         THEN [body |-> TRUE, ts |-> set_pcp(s, level, x)]
         ELSE pcp_for(set_pcp(s, level, x), level + 1, pcp_loop_init(level + 1))
    ELSE IF level = 0
         THEN [body |-> FALSE, ts |-> s]
         ELSE pcp_for(s, level - 1, s.tasks[level - 1].phase_change_point + 1)

(***************************************************************************)
(* The task sets the drivers construct.  A driver sets wcet and period of  *)
(* the four tasks and hyper_period (the verify_counterexample functions), then the     *)
(* priorities and phase change points its test needs; the simulation state *)
(* fields hold whatever the memory held.                                   *)
(***************************************************************************)
MaxPcp == 2
MaxLeftover == 1

Vec(a, b, c, d) == [i \in TaskIds |-> <<a, b, c, d>>[i + 1]]

\* <<wcets, periods>>
TaskSets ==
    { <<Vec(1, 1, 1, 1), Vec(3, 4, 4, 6)>>,    \* utilization 1
      <<Vec(1, 2, 2, 1), Vec(2, 1, 1, 2)>>,    \* two tasks with wcet > period
      <<Vec(1, 0, 0, 0), Vec(2, 1, 1, 1)>>,    \* idle time, tasks without work
      <<Vec(1, 1, 1, 1), Vec(2, 2, 2, 2)>>,    \* first deadlines at hyper_period
      <<Vec(2, 1, 0, 1), Vec(4, 6, 1, 3)>>,    \* utilization 1, a job of 2 units
      <<Vec(1, 1, 3, 1), Vec(3, 3, 2, 3)>> }   \* one task with wcet > period

\* <<phase 1 priorities, phase 2 priorities>>
PrioChoices ==
    { <<Vec(4, 5, 6, 7), Vec(0, 1, 2, 3)>>,
      <<Vec(0, 1, 2, 3), Vec(4, 5, 6, 7)>>,
      <<Vec(4, 0, 6, 2), Vec(1, 5, 3, 7)>>,
      <<Vec(4, 5, 7, 6), Vec(0, 1, 2, 3)>>,
      <<Vec(1, 1, 0, 0), Vec(0, 0, 1, 1)>>,
      <<Vec(0, 1, 0, 1), Vec(0, 0, 0, 0)>> }

PcpChoices(period) == {x \in 0..period : x <= MaxPcp \/ x = period}

LeftoverValues == {-1, MaxLeftover}

make_taskset(wcets, periods, p1, p2, pcp, last, rem) ==
    [tasks |-> [i \in TaskIds |->
        [wcet |-> wcets[i], period |-> periods[i],
         phase_1_prio |-> p1[i], phase_2_prio |-> p2[i],
         phase_change_point |-> pcp[i],
         last_release_time |-> last, remaining_wcet |-> rem]],
     hyper_period |-> hyper_period(periods)]

(***************************************************************************)
(* Spec: a driver calls simulate_sas, which runs tick by tick.             *)
(***************************************************************************)
Init ==
    /\ \E tp \in TaskSets, pr \in PrioChoices,
          last \in LeftoverValues, rem \in LeftoverValues :
          \E c0 \in PcpChoices(tp[2][0]), c1 \in PcpChoices(tp[2][1]),
             c2 \in PcpChoices(tp[2][2]), c3 \in PcpChoices(tp[2][3]) :
              ts = make_taskset(tp[1], tp[2], pr[1], pr[2],
                                Vec(c0, c1, c2, c3), last, rem)
    /\ entry = "simulate_sas"
    /\ pc = "call"
    /\ t = 0
    /\ ret = NULL
    /\ trace = <<>>
    /\ generated_combinations = 0
    /\ total_combinations = 0
    /\ generated_permutations = 0

\* simulate_sas: reset_simulation_state(ts); long t = 0;
SimCall ==
    /\ entry = "simulate_sas" /\ pc = "call"
    /\ ts' = reset_simulation_state(ts)
    /\ t' = 0
    /\ pc' = "loop"
    /\ UNCHANGED <<entry, ret, trace, generated_combinations,
                   total_combinations, generated_permutations>>

\* One iteration of the while loop that returns on a deadline miss.
SimMiss ==
    /\ entry = "simulate_sas" /\ pc = "loop"
    /\ sas_loop_cond(ts, t)
    /\ first_missed_deadline(ts, t) # NULL
    /\ ret' = first_missed_deadline(ts, t)
    /\ pc' = "done"
    /\ UNCHANGED <<ts, entry, t, trace, generated_combinations,
                   total_combinations, generated_permutations>>

\* One iteration of the while loop without a miss: release, execute, t++.
SimTick ==
    /\ entry = "simulate_sas" /\ pc = "loop"
    /\ sas_loop_cond(ts, t)
    /\ first_missed_deadline(ts, t) = NULL
    /\ ts' = sas_tick(ts, t)
    /\ trace' = Append(trace, get_highest_prio_active_task(
                                  release_ready_tasks(ts, t), t))
    /\ t' = t + 1
    /\ UNCHANGED <<entry, pc, ret, generated_combinations,
                   total_combinations, generated_permutations>>

\* The while loop ends: return NULL.
SimExit ==
    /\ entry = "simulate_sas" /\ pc = "loop"
    /\ ~sas_loop_cond(ts, t)
    /\ ret' = NULL
    /\ pc' = "done"
    /\ UNCHANGED <<ts, entry, t, trace, generated_combinations,
                   total_combinations, generated_permutations>>

Next == SimCall \/ SimMiss \/ SimTick \/ SimExit

Spec == Init /\ [][Next]_vars

(***************************************************************************)
(* Properties of simulate_sas, checked under Spec.                         *)
(***************************************************************************)

\* The units task i executed in the ticks a, a+1, ..., b-1 of the schedule.
ExecCount(i, a, b) == Cardinality({k \in (a + 1)..b : trace[k] = i})

\* The instants below the hyper-period at which task i releases a job.
ReleaseInstants(i) ==
    {r \in 0..(ts.hyper_period - 1) : r % ts.tasks[i].period = 0}

\* The job of task i released at r got its wcet units by its deadline.
JobDone(i, r) ==
    /\ r + ts.tasks[i].period <= Len(trace)
    /\ ExecCount(i, r, r + ts.tasks[i].period) = ts.tasks[i].wcet

AllJobsDone == \A i \in TaskIds : \A r \in ReleaseInstants(i) : JobDone(i, r)

\* C1: simulate_sas returns NULL if and only if, in the schedule its ticks
\* built, every job released before the hyper-period got its wcet units of
\* execution by its deadline; otherwise it returns a task.
C1_ScheduleVerdict ==
    (entry = "simulate_sas" /\ pc = "done") =>
        /\ (ret = NULL) <=> AllJobsDone
        /\ ret # NULL => ret \in TaskIds

\* A schedulable run of four tasks that all have work.
C1_Witness ==
    /\ entry = "simulate_sas" /\ pc = "done" /\ ret = NULL
    /\ \A i \in TaskIds : ts.tasks[i].wcet > 0
    /\ Len(trace) = ts.hyper_period + 1

\* At instant u a job of task i is due while the job released one period
\* earlier has not had its wcet units.
MissedAt(i, u) ==
    /\ u > 0
    /\ u % ts.tasks[i].period = 0
    /\ ExecCount(i, u - ts.tasks[i].period, u) < ts.tasks[i].wcet

\* C2: a reported miss names the lowest-indexed task that misses at the
\* earliest tick at which any task misses; the check of that tick precedes
\* its releases and its execution, and no tick follows.
C2_FirstMiss ==
    (entry = "simulate_sas" /\ pc = "done" /\ ret # NULL) =>
        /\ Len(trace) = t
        /\ \A u \in 0..(t - 1) : \A i \in TaskIds : ~MissedAt(i, u)
        /\ MissedAt(ret, t)
        /\ \A j \in TaskIds : j < ret => ~MissedAt(j, t)
        /\ ts.tasks[ret].remaining_wcet > 0
        /\ t - ts.tasks[ret].last_release_time >= ts.tasks[ret].period
        /\ \A i \in TaskIds : ts.tasks[i].last_release_time < t
        /\ ~ENABLED Next

\* Two tasks miss at the same tick and the lower-indexed one is not task 0.
C2_Witness ==
    /\ entry = "simulate_sas" /\ pc = "done" /\ ret > 0
    /\ \E j \in TaskIds : j > ret /\ MissedAt(j, t)

\* The effective priority of task i at time now, by its last release.
EffPrio(task, now) ==
    IF now - task.last_release_time < task.phase_change_point
    THEN task.phase_1_prio
    ELSE task.phase_2_prio

\* The remaining execution of task i after the releases of the tick that
\* leads from the current state to the next one.
RemAfterRelease(i) ==
    IF ts'.tasks[i].last_release_time = t
    THEN ts.tasks[i].wcet
    ELSE ts.tasks[i].remaining_wcet

\* C3 (amended): a tick in which no deadline miss is reported decrements
\* the remaining execution of exactly one task, by one, when some task is
\* active after the releases, and of none otherwise; the task executed
\* is active, no active task has a numerically lower effective priority, and
\* among the active tasks of equal effective priority it has the lowest index.
C3_TickExecutesHighest ==
    [][(entry = "simulate_sas" /\ pc = "loop" /\ t' = t + 1) =>
        LET Active == {i \in TaskIds : RemAfterRelease(i) > 0}
            Prio(i) == EffPrio(ts'.tasks[i], t)
            Best == {i \in Active : \A j \in Active :
                        \/ Prio(i) < Prio(j)
                        \/ (Prio(i) = Prio(j) /\ i <= j)}
            Run == {i \in TaskIds :
                        ts'.tasks[i].remaining_wcet = RemAfterRelease(i) - 1}
        IN  /\ \A i \in TaskIds :
                  ts'.tasks[i].remaining_wcet \in
                      {RemAfterRelease(i), RemAfterRelease(i) - 1}
            /\ Active = {} => Run = {} /\ trace'[t + 1] = NULL
            /\ Active # {} => Cardinality(Run) = 1 /\ Run = Best
                                /\ trace'[t + 1] \in Best
    ]_vars

\* C3 as stated, for every tick the while loop starts, the tick that reports
\* a miss included: exactly one task is decremented when some task is active.
C3_EveryTickExecutes ==
    [][(entry = "simulate_sas" /\ pc = "loop" /\ sas_loop_cond(ts, t)) =>
        LET Active == {i \in TaskIds : RemAfterRelease(i) > 0}
            Run == {i \in TaskIds :
                        ts'.tasks[i].remaining_wcet = RemAfterRelease(i) - 1}
        IN  /\ Active = {} => Run = {}
            /\ Active # {} => Cardinality(Run) = 1
    ]_vars

\* The last tick executed the lower-indexed of two active tasks of equal
\* effective priority.
C3_Witness ==
    /\ entry = "simulate_sas" /\ pc = "loop" /\ t >= 1
    /\ \E i, j \in TaskIds :
          /\ i < j
          /\ trace[t] = i
          /\ ts.tasks[j].remaining_wcet > 0
          /\ EffPrio(ts.tasks[i], t - 1) = EffPrio(ts.tasks[j], t - 1)

\* The task set with the simulation state of every task overwritten.
WithLeftover(s, last, rem) ==
    [s EXCEPT !.tasks = [i \in TaskIds |->
        [s.tasks[i] EXCEPT !.last_release_time = last, !.remaining_wcet = rem]]]

\* C10: the value simulate_sas returns does not depend on the simulation
\* state it finds: a call on the same parameters returns the same value from
\* the state this run left behind and from any other leftover state.
C10_IndependentOfLeftover ==
    (entry = "simulate_sas" /\ pc = "done") =>
        /\ simulate_sas(ts).ret = ret
        /\ \A last \in LeftoverValues \cup {0}, rem \in LeftoverValues \cup {0} :
              simulate_sas(WithLeftover(ts, last, rem)).ret = ret

\* A run that stopped at a miss and left unfinished execution behind.
C10_Witness ==
    /\ entry = "simulate_sas" /\ pc = "done" /\ ret # NULL
    /\ \E i \in TaskIds : ts.tasks[i].remaining_wcet > 0
    /\ \E i \in TaskIds : ts.tasks[i].last_release_time > 0

(***************************************************************************)
(* SpecSearch: a driver sets the priorities and calls                      *)
(* test_fdms_phase_change_points or test_all_phase_change_points.  Each    *)
(* step is one iteration of the function's loop, the call of simulate_sas  *)
(* in it included.                                                         *)
(***************************************************************************)
InitSearch ==
    /\ \E tp \in TaskSets, pr \in PrioChoices,
          c \in {0, MaxPcp}, l \in LeftoverValues :
          ts = make_taskset(tp[1], tp[2], pr[1], pr[2], Vec(c, c, c, c), l, l)
    /\ entry \in {"test_fdms_phase_change_points",
                  "test_all_phase_change_points"}
    /\ pc = "call"
    /\ t = 0
    /\ ret = NULL
    /\ trace = <<>>
    /\ generated_combinations = 0
    /\ total_combinations = 0
    /\ generated_permutations = 0

\* test_fdms_phase_change_points up to the while loop.
FdmsCall ==
    /\ entry = "test_fdms_phase_change_points" /\ pc = "call"
    /\ ts' = fdms_init(ts)
    /\ pc' = "loop"
    /\ UNCHANGED <<entry, t, ret, trace, generated_combinations,
                   total_combinations, generated_permutations>>

\* One iteration of the while loop.
FdmsIterate(kind) ==
    /\ entry = "test_fdms_phase_change_points" /\ pc = "loop"
    /\ LET it == fdms_iteration(simulate_sas(ts))
       IN  /\ kind = <<it.pc, it.ret>>
           /\ ts' = it.ts
           /\ pc' = it.pc
           /\ ret' = it.ret
    /\ UNCHANGED <<entry, t, trace, generated_combinations,
                   total_combinations, generated_permutations>>

FdmsSuccess == FdmsIterate(<<"done", 1>>)
FdmsDecrease == FdmsIterate(<<"loop", NULL>>)
FdmsFail == FdmsIterate(<<"done", 0>>)

\* test_all_phase_change_points up to the first execution of the innermost
\* loop body.
PcpCall ==
    /\ entry = "test_all_phase_change_points" /\ pc = "call"
    /\ total_combinations' = total_combinations_of(ts)
    /\ generated_combinations' = 0
    /\ LET first == pcp_for(ts, 0, pcp_loop_init(0))
       IN  /\ ts' = first.ts
           /\ pc' = IF first.body THEN "body" ELSE "assert"
    /\ UNCHANGED <<entry, t, ret, trace, generated_permutations>>

\* The innermost body finds the combination schedulable: return 1.
PcpFound ==
    /\ entry = "test_all_phase_change_points" /\ pc = "body"
    /\ LET b == pcp_body(ts, generated_combinations)
       IN  /\ b.found
           /\ ts' = b.ts
           /\ generated_combinations' = b.gen
    /\ ret' = 1
    /\ pc' = "done"
    /\ UNCHANGED <<entry, t, trace, total_combinations,
                   generated_permutations>>

\* The innermost body finds a miss: on to the next combination, or out of
\* the loops.
PcpNext ==
    /\ entry = "test_all_phase_change_points" /\ pc = "body"
    /\ LET b == pcp_body(ts, generated_combinations)
           nxt == pcp_for(b.ts, NUM_TASKS - 1,
                          b.ts.tasks[NUM_TASKS - 1].phase_change_point + 1)
       IN  /\ ~b.found
           /\ generated_combinations' = b.gen
           /\ ts' = nxt.ts
           /\ pc' = IF nxt.body THEN "body" ELSE "assert"
    /\ UNCHANGED <<entry, t, ret, trace, total_combinations,
                   generated_permutations>>

\* assert(generated_combinations == total_combinations); return 0;
PcpAssert ==
    /\ entry = "test_all_phase_change_points" /\ pc = "assert"
    /\ pc' = pcp_exhausted(generated_combinations, total_combinations).pc
    /\ ret' = pcp_exhausted(generated_combinations, total_combinations).ret
    /\ UNCHANGED <<ts, entry, t, trace, generated_combinations,
                   total_combinations, generated_permutations>>

NextSearch ==
    \/ FdmsCall \/ FdmsSuccess \/ FdmsDecrease \/ FdmsFail
    \/ PcpCall \/ PcpFound \/ PcpNext \/ PcpAssert

SpecSearch == InitSearch /\ [][NextSearch]_vars

(***************************************************************************)
(* Properties of the two phase change point searches, checked under        *)
(* SpecSearch.                                                             *)
(***************************************************************************)

\* The task set with the phase change points c0..c3.
WithPcp(s, c0, c1, c2, c3) ==
    set_pcp(set_pcp(set_pcp(set_pcp(s, 0, c0), 1, c1), 2, c2), 3, c3)

\* Some assignment of phase change points within [0, period] is schedulable.
SomePcpSchedulable ==
    \E c0 \in 0..ts.tasks[0].period, c1 \in 0..ts.tasks[1].period,
       c2 \in 0..ts.tasks[2].period, c3 \in 0..ts.tasks[3].period :
        simulate_sas(WithPcp(ts, c0, c1, c2, c3)).ret = NULL

LexIndex ==
    ((ts.tasks[0].phase_change_point * (ts.tasks[1].period + 1)
        + ts.tasks[1].phase_change_point) * (ts.tasks[2].period + 1)
        + ts.tasks[2].phase_change_point) * (ts.tasks[3].period + 1)
        + ts.tasks[3].phase_change_point

ProductOfRanges ==
    (ts.tasks[0].period + 1) * (ts.tasks[1].period + 1)
        * (ts.tasks[2].period + 1) * (ts.tasks[3].period + 1)

Pcps(s) == [i \in TaskIds |-> s.tasks[i].phase_change_point]
Prios(s) == [i \in TaskIds |-> <<s.tasks[i].phase_1_prio, s.tasks[i].phase_2_prio>>]

\* C8: test_fdms_phase_change_points first sets every phase change point
\* to the period; then, after each simulation: no miss, it returns 1; task k
\* missed with a positive phase change point, it decrements that point by
\* one, leaves the other points and the priorities alone and simulates
\* again; task k missed with phase change point 0, it returns 0 with the
\* points unchanged.
C8_FdmsPolicy ==
    [][entry = "test_fdms_phase_change_points" =>
        /\ pc = "call" =>
              /\ \A i \in TaskIds :
                    ts'.tasks[i].phase_change_point = ts.tasks[i].period
              /\ Prios(ts') = Prios(ts)
              /\ pc' = "loop"
        /\ pc = "loop" =>
              LET k == simulate_sas(ts).ret
              IN  /\ Prios(ts') = Prios(ts)
                  /\ k = NULL =>
                        pc' = "done" /\ ret' = 1 /\ Pcps(ts') = Pcps(ts)
                  /\ (k # NULL /\ ts.tasks[k].phase_change_point > 0) =>
                        /\ pc' = "loop"
                        /\ Pcps(ts') = [Pcps(ts) EXCEPT ![k] = @ - 1]
                  /\ (k # NULL /\ ts.tasks[k].phase_change_point = 0) =>
                        pc' = "done" /\ ret' = 0 /\ Pcps(ts') = Pcps(ts)
    ]_vars

\* FDMS failed after decreasing the point of a task other than the first
\* to 0, with the point of another task still at its period.
C8_Witness ==
    /\ entry = "test_fdms_phase_change_points" /\ pc = "done" /\ ret = 0
    /\ \E k \in TaskIds : k > 0 /\ ts.tasks[k].phase_change_point = 0
    /\ \E j \in TaskIds : ts.tasks[j].phase_change_point = ts.tasks[j].period
    /\ \A i \in TaskIds : ts.tasks[i].period > 1

\* C9: when test_fdms_phase_change_points returns 1, the phase change
\* points it ends with lie in the ranges [0, period_i] and are schedulable,
\* and test_all_phase_change_points returns 1 for the same wcets, periods
\* and priorities.
C9_FdmsImpliesSearch ==
    (entry = "test_fdms_phase_change_points" /\ pc = "done" /\ ret = 1) =>
        /\ \A i \in TaskIds :
              ts.tasks[i].phase_change_point \in 0..ts.tasks[i].period
        /\ simulate_sas(ts).ret = NULL
        /\ test_all_phase_change_points(ts).pc = "done"
        /\ test_all_phase_change_points(ts).ret = 1

\* FDMS succeeded after decreasing some phase change point.
C9_Witness ==
    /\ entry = "test_fdms_phase_change_points" /\ pc = "done" /\ ret = 1
    /\ \E i \in TaskIds : ts.tasks[i].phase_change_point < ts.tasks[i].period

(***************************************************************************)
(* The priority searches: test_all_configurations_exhaustively and         *)
(* test_rm_configurations_exhaustively.  Both are eight nested for loops,  *)
(* one per priority slot; the loop of level 0 is the outermost.  The       *)
(* counter of an enclosing loop is the priority that loop assigned.        *)
(***************************************************************************)
ALL == "test_all_configurations_exhaustively"
RM == "test_rm_configurations_exhaustively"

\* const long total_permutations
total_permutations(e) ==
    IF e = ALL THEN 8 * 7 * 6 * 5 * 4 * 3 * 2 * 1 ELSE 8 * 7 * 6 * 5

\* The slot of a loop level: T1p2..T4p2 then T1p1..T4p1 in the unrestricted
\* search, T1p1..T4p1 then T1p2..T4p2 in the rate monotonic one.
slot_task(level) == level % NUM_TASKS

slot_phase(e, level) ==
    IF e = ALL
    THEN (IF level < NUM_TASKS THEN 2 ELSE 1)
    ELSE (IF level < NUM_TASKS THEN 1 ELSE 2)

get_slot(e, s, level) ==
    IF slot_phase(e, level) = 1
    THEN s.tasks[slot_task(level)].phase_1_prio
    ELSE s.tasks[slot_task(level)].phase_2_prio

\* ts->tasks[i].phase_1_prio = x;  or  ts->tasks[i].phase_2_prio = x;
set_slot(e, s, level, x) ==
    IF slot_phase(e, level) = 1
    THEN [s EXCEPT !.tasks[slot_task(level)].phase_1_prio = x]
    ELSE [s EXCEPT !.tasks[slot_task(level)].phase_2_prio = x]

prio_loop_init_zero(e, s, level) == 0

\* The initial value of a loop counter: T2p1 = T1p1 + 1 and so on in the
\* rate monotonic search, 0 everywhere else.
prio_loop_init(e, s, level) ==
    IF e = RM /\ 0 < level /\ level < NUM_TASKS
    THEN get_slot(e, s, level - 1) + 1
    ELSE 0

\* The condition of every loop: x < 8.
prio_in_range(x) == x < NUM_PRIOS

is_taken_in_outer_half(e, s, level, x) ==
    /\ e = ALL \/ level >= NUM_TASKS
    /\ \E j \in 0..(level - 1) : j < NUM_TASKS /\ get_slot(e, s, j) = x

\* The "if (x == ...) continue;" lines of a loop: x is the counter of an
\* enclosing loop.  The four phase 1 loops of the rate monotonic search
\* have none.
is_taken(e, s, level, x) ==
    /\ e = ALL \/ level >= NUM_TASKS
    /\ \E j \in 0..(level - 1) : get_slot(e, s, j) = x

\* The loops from the test of the loop of the given level with its counter
\* at x up to the next execution of the innermost body: whether there is
\* one, and the task set with the priorities assigned on the way.
RECURSIVE prio_for(_, _, _, _)
prio_for(e, s, level, x) ==
    IF prio_in_range(x)
    THEN IF is_taken(e, s, level, x)
         THEN prio_for(e, s, level, x + 1)
         ELSE IF level = NUM_PRIOS - 1
              THEN [body |-> TRUE, ts |-> set_slot(e, s, level, x)]
              ELSE The({prio_for(e, a, level + 1,
                                 prio_loop_init(e, a, level + 1)) :
                            a \in {set_slot(e, s, level, x)}})
    ELSE IF level = 0
         THEN [body |-> FALSE, ts |-> s]
         ELSE prio_for(e, s, level - 1, get_slot(e, s, level - 1) + 1)

\* assert(generated_permutations == total_permutations); return 0;
prio_exhausted(e, gen) ==
    IF gen = total_permutations(e)
    THEN [pc |-> "done", ret |-> 0]
    ELSE [pc |-> "abort", ret |-> NULL]

\* The task sets handed to the priority searches.
PrioTaskSets ==
    { <<Vec(1, 1, 1, 1), Vec(1, 1, 1, 1)>>,    \* utilization 4
      <<Vec(2, 0, 0, 3), Vec(4, 1, 1, 6)>>,    \* utilization 1
      <<Vec(1, 0, 0, 0), Vec(2, 1, 1, 1)>> }

(***************************************************************************)
(* SpecPrio: a driver calls one of the two priority searches; one          *)
(* execution of the innermost loop body per step, with the call of         *)
(* test_all_phase_change_points it makes.                                  *)
(***************************************************************************)
InitPrio ==
    /\ \E tp \in PrioTaskSets, l \in LeftoverValues :
          ts = make_taskset(tp[1], tp[2], Vec(l, l, l, l), Vec(l, l, l, l),
                            Vec(l, l, l, l), l, l)
    /\ entry \in {ALL, RM}
    /\ pc = "call"
    /\ t = 0
    /\ ret = NULL
    /\ trace = <<>>
    /\ generated_combinations = 0
    /\ total_combinations = 0
    /\ generated_permutations = 0

\* The search up to the first execution of the innermost loop body.
PrioCall ==
    /\ entry \in {ALL, RM} /\ pc = "call"
    /\ generated_permutations' = 0
    /\ LET first == prio_for(entry, ts, 0, prio_loop_init(entry, ts, 0))
       IN  /\ ts' = first.ts
           /\ pc' = IF first.body THEN "body" ELSE "assert"
    /\ UNCHANGED <<entry, t, ret, trace, generated_combinations,
                   total_combinations>>

\* The innermost body up to the return of the call it makes:
\* generated_permutations++; test_all_phase_change_points(ts)
PrioBody ==
    /\ entry \in {ALL, RM} /\ pc = "body"
    /\ generated_permutations' = generated_permutations + 1
    /\ \E r \in {test_all_phase_change_points(ts)} :
          /\ ts' = r.ts
          /\ ret' = r.ret
          /\ pc' = IF r.pc = "abort" THEN "abort" ELSE "tested"
    /\ UNCHANGED <<entry, t, trace, generated_combinations,
                   total_combinations>>

\* if (test_all_phase_change_points(ts)) return 1;
PrioFound ==
    /\ entry \in {ALL, RM} /\ pc = "tested"
    /\ ret # 0
    /\ ret' = 1
    /\ pc' = "done"
    /\ UNCHANGED <<ts, entry, t, trace, generated_combinations,
                   total_combinations, generated_permutations>>

\* The call returned 0: on to the next permutation, or out of the loops.
PrioNext ==
    /\ entry \in {ALL, RM} /\ pc = "tested"
    /\ ret = 0
    /\ \E nxt \in {prio_for(entry, ts, NUM_PRIOS - 1,
                            get_slot(entry, ts, NUM_PRIOS - 1) + 1)} :
          /\ ts' = nxt.ts
          /\ pc' = IF nxt.body THEN "body" ELSE "assert"
    /\ UNCHANGED <<entry, t, ret, trace, generated_combinations,
                   total_combinations, generated_permutations>>

\* assert(generated_permutations == total_permutations); return 0;
PrioAssert ==
    /\ entry \in {ALL, RM} /\ pc = "assert"
    /\ pc' = prio_exhausted(entry, generated_permutations).pc
    /\ ret' = prio_exhausted(entry, generated_permutations).ret
    /\ UNCHANGED <<ts, entry, t, trace, generated_combinations,
                   total_combinations, generated_permutations>>

NextPrio == PrioCall \/ PrioBody \/ PrioFound \/ PrioNext \/ PrioAssert

SpecPrio == InitPrio /\ [][NextPrio]_vars

(***************************************************************************)
(* Properties of the priority searches, checked under SpecPrio.            *)
(***************************************************************************)
RECURSIVE Fact(_)
Fact(n) == IF n = 0 THEN 1 ELSE n * Fact(n - 1)

Prio1(i) == ts.tasks[i].phase_1_prio
Prio2(i) == ts.tasks[i].phase_2_prio

\* The eight priorities, those of the outer loops first.
Phase2First ==
    <<Prio2(0), Prio2(1), Prio2(2), Prio2(3),
      Prio1(0), Prio1(1), Prio1(2), Prio1(3)>>
Phase1First ==
    <<Prio1(0), Prio1(1), Prio1(2), Prio1(3),
      Prio2(0), Prio2(1), Prio2(2), Prio2(3)>>

IsBijection(v) ==
    /\ \A k \in 1..NUM_PRIOS : v[k] \in 0..(NUM_PRIOS - 1)
    /\ \A k, l \in 1..NUM_PRIOS : k # l => v[k] # v[l]

\* The number of arrangements that precede v[from..8] in lexicographic
\* order among the arrangements of the values v[1..from-1] leaves over.
RECURSIVE RankFrom(_, _)
RankFrom(v, from) ==
    IF from > NUM_PRIOS THEN 0
    ELSE Cardinality({x \in 0..(NUM_PRIOS - 1) :
                         /\ x < v[from]
                         /\ \A l \in 1..(from - 1) : v[l] # x})
             * Fact(NUM_PRIOS - from)
         + RankFrom(v, from + 1)

\* C6: every priority assignment test_all_configurations_exhaustively
\* hands to the phase change point search is a bijection from the 8 slots
\* onto 0..7, and the assignments generated before it are exactly the
\* bijections that precede it in lexicographic order with the phase 2
\* priorities most significant; when the loops are left 8! = 40320
\* assignments have been generated, the assertion holds and 0 is returned.
C6_AllBijectionsOnce ==
    entry = ALL =>
        /\ pc = "body" =>
              /\ IsBijection(Phase2First)
              /\ generated_permutations = RankFrom(Phase2First, 1)
        /\ pc = "assert" =>
              /\ generated_permutations = Fact(NUM_PRIOS)
              /\ generated_permutations = total_permutations(ALL)
        /\ pc # "abort"
        /\ (pc = "done" /\ ret = 0) =>
              generated_permutations = Fact(NUM_PRIOS)

\* The unrestricted search returned 0 after the last bijection.
C6_Witness ==
    /\ entry = ALL /\ pc = "done" /\ ret = 0
    /\ generated_permutations = Fact(NUM_PRIOS)
    /\ Phase2First = <<7, 6, 5, 4, 3, 2, 1, 0>>

SetMin(S) == CHOOSE x \in S : \A y \in S : x <= y

\* The number of sets of NUM_TASKS priorities that, listed in increasing
\* order, precede the set A in lexicographic order.
CombRank(A) ==
    Cardinality({B \in SUBSET (0..(NUM_PRIOS - 1)) :
                    /\ Cardinality(B) = NUM_TASKS
                    /\ B # A
                    /\ SetMin((A \ B) \cup (B \ A)) \in B})

\* C7: in every priority assignment test_rm_configurations_exhaustively
\* hands to the phase change point search the phase 1 priorities increase
\* strictly with the task index and the 8 priorities are pairwise distinct
\* values of 0..7, and the assignments generated before it are exactly
\* those with these two properties that precede it (phase 1 priorities most
\* significant); when the loops are left 1680 assignments have been
\* generated, the assertion holds and 0 is returned.
C7_RateMonotonicOnce ==
    entry = RM =>
        /\ pc = "body" =>
              /\ \A i \in 0..(NUM_TASKS - 2) : Prio1(i) < Prio1(i + 1)
              /\ IsBijection(Phase1First)
              /\ generated_permutations =
                    CombRank({Prio1(i) : i \in TaskIds}) * Fact(NUM_TASKS)
                        + RankFrom(Phase1First, NUM_TASKS + 1)
        /\ pc = "assert" =>
              /\ generated_permutations = Fact(NUM_PRIOS) \div Fact(NUM_TASKS)
              /\ generated_permutations = total_permutations(RM)
        /\ pc # "abort"
        /\ (pc = "done" /\ ret = 0) =>
              generated_permutations = Fact(NUM_PRIOS) \div Fact(NUM_TASKS)

\* The rate monotonic search returned 0 after the last assignment; the
\* phase 1 loops, which skip nothing, have since assigned 7 to every task.
C7_Witness ==
    /\ entry = RM /\ pc = "done" /\ ret = 0
    /\ generated_permutations = Fact(NUM_PRIOS) \div Fact(NUM_TASKS)
    /\ Phase1First = <<7, 7, 7, 7, 3, 2, 1, 0>>

(***************************************************************************)
(* SpecTest3: verify_counterexample_3.  The driver builds the task set,    *)
(* sets the RM+RM priorities, calls test_fdms_phase_change_points, then    *)
(* sets its own phase change points and calls simulate_sas.  Every         *)
(* iteration of the while loop of simulate_sas is a step; the schedule is  *)
(* not recorded.                                                           *)
(***************************************************************************)
TEST3 == "verify_counterexample_3"

\* T1.wcet = 6; T1.period = 11; ... T4.wcet = 5; T4.period = 74;
test3_taskset == <<Vec(6, 6, 4, 5), Vec(11, 20, 46, 74)>>

\* ts.tasks[0].phase_1_prio = 4; ts.tasks[0].phase_2_prio = 0; ...
test3_set_priorities(s) ==
    [s EXCEPT !.tasks = [i \in TaskIds |->
        [s.tasks[i] EXCEPT !.phase_1_prio = Vec(4, 5, 6, 7)[i],
                           !.phase_2_prio = Vec(0, 1, 2, 3)[i]]]]

\* ts.tasks[0].phase_change_point = 5; ... ts.tasks[3].phase_change_point = 35;
test3_set_custom_points(s) ==
    [s EXCEPT !.tasks = [i \in TaskIds |->
        [s.tasks[i] EXCEPT !.phase_change_point = Vec(5, 3, 25, 35)[i]]]]

\* What the while loop of simulate_sas does at time now: "tick" when the
\* iteration runs to t++, otherwise the value the function returns.
sas_step(s, now) ==
    IF ~sas_loop_cond(s, now) THEN [tick |-> FALSE, ret |-> NULL]
    ELSE IF first_missed_deadline(s, now) # NULL
         THEN [tick |-> FALSE, ret |-> first_missed_deadline(s, now)]
         ELSE [tick |-> TRUE, ret |-> NULL]

\* The stack variables of the driver after lines 743-754: wcet, period and
\* hyper_period set, everything else whatever the stack held.
InitTest3 ==
    /\ \E l \in LeftoverValues :
          ts = make_taskset(test3_taskset[1], test3_taskset[2],
                            Vec(l, l, l, l), Vec(l, l, l, l),
                            Vec(l, l, l, l), l, l)
    /\ entry = TEST3
    /\ pc = "call"
    /\ t = 0
    /\ ret = NULL
    /\ trace = <<>>
    /\ generated_combinations = 0
    /\ total_combinations = 0
    /\ generated_permutations = 0

\* Lines 759-765 and test_fdms_phase_change_points up to its first call of
\* simulate_sas, which resets the simulation state.
Test3Call ==
    /\ entry = TEST3 /\ pc = "call"
    /\ ts' = reset_simulation_state(fdms_init(test3_set_priorities(ts)))
    /\ t' = 0
    /\ pc' = "fdms_sim"
    /\ UNCHANGED <<entry, ret, trace, generated_combinations,
                   total_combinations, generated_permutations>>

\* An iteration of the while loop of simulate_sas, called by
\* test_fdms_phase_change_points or by the driver, that runs to t++.
Test3Tick ==
    /\ entry = TEST3 /\ pc \in {"fdms_sim", "custom_sim"}
    /\ sas_step(ts, t).tick
    /\ ts' = sas_tick(ts, t)
    /\ t' = t + 1
    /\ UNCHANGED <<entry, pc, ret, trace, generated_combinations,
                   total_combinations, generated_permutations>>

\* simulate_sas returns to test_fdms_phase_change_points, which decreases
\* the phase change point of the task that missed and simulates again.
Test3FdmsDecrease ==
    /\ entry = TEST3 /\ pc = "fdms_sim"
    /\ ~sas_step(ts, t).tick
    /\ \E it \in {fdms_iteration([ts |-> ts, ret |-> sas_step(ts, t).ret])} :
          /\ it.pc = "loop"
          /\ ts' = reset_simulation_state(it.ts)
    /\ t' = 0
    /\ UNCHANGED <<entry, pc, ret, trace, generated_combinations,
                   total_combinations, generated_permutations>>

\* simulate_sas returns to test_fdms_phase_change_points, which returns to
\* the driver.
Test3FdmsReturn ==
    /\ entry = TEST3 /\ pc = "fdms_sim"
    /\ ~sas_step(ts, t).tick
    /\ \E it \in {fdms_iteration([ts |-> ts, ret |-> sas_step(ts, t).ret])} :
          /\ it.pc = "done"
          /\ ts' = it.ts
          /\ ret' = it.ret
    /\ pc' = "fdms_returned"
    /\ UNCHANGED <<entry, t, trace, generated_combinations,
                   total_combinations, generated_permutations>>

\* Lines 766-778: exit(EXIT_FAILURE) if FDMS succeeded, otherwise the
\* custom phase change points and the call of simulate_sas.
Test3Custom ==
    /\ entry = TEST3 /\ pc = "fdms_returned"
    /\ IF ret # 0
       THEN pc' = "exit_failure" /\ UNCHANGED <<ts, t>>
       ELSE /\ ts' = reset_simulation_state(test3_set_custom_points(ts))
            /\ t' = 0
            /\ pc' = "custom_sim"
    /\ UNCHANGED <<entry, ret, trace, generated_combinations,
                   total_combinations, generated_permutations>>

\* Lines 778-784: simulate_sas returns to the driver.
Test3CustomReturn ==
    /\ entry = TEST3 /\ pc = "custom_sim"
    /\ ~sas_step(ts, t).tick
    /\ ret' = sas_step(ts, t).ret
    /\ pc' = IF sas_step(ts, t).ret # NULL THEN "exit_failure" ELSE "done"
    /\ UNCHANGED <<ts, entry, t, trace, generated_combinations,
                   total_combinations, generated_permutations>>

NextTest3 ==
    \/ Test3Call \/ Test3Tick \/ Test3FdmsDecrease \/ Test3FdmsReturn
    \/ Test3Custom \/ Test3CustomReturn

SpecTest3 == InitTest3 /\ [][NextTest3]_vars

(***************************************************************************)
(* Properties of verify_counterexample_3, checked under SpecTest3.         *)
(***************************************************************************)

\* The task set of test 3 with its RM+RM priorities and hyper-period.
IsTest3Config ==
    /\ [i \in TaskIds |-> ts.tasks[i].wcet] = Vec(6, 6, 4, 5)
    /\ [i \in TaskIds |-> ts.tasks[i].period] = Vec(11, 20, 46, 74)
    /\ Prios(ts) = [i \in TaskIds |-> <<4 + i, i>>]
    /\ ts.hyper_period = 187220

\* C11: for the tasks (6,11), (6,20), (4,46), (5,74) with priorities
\* (4,0), (5,1), (6,2), (7,3) and hyper-period 187220,
\* test_fdms_phase_change_points returns 0.
C11_Test3FdmsFails ==
    (entry = TEST3 /\ pc = "fdms_returned") =>
        IsTest3Config /\ ret = 0

\* FDMS has returned to the driver after decreasing three of the four
\* phase change points, the last of them to 0.
C11_Witness ==
    /\ entry = TEST3 /\ pc = "fdms_returned" /\ ret = 0
    /\ IsTest3Config
    /\ Pcps(ts) = Vec(5, 2, 12, 0)

\* C12: for the same tasks and priorities with phase change points 5, 3,
\* 25, 35, no iteration of simulate_sas up to t = 187220 finds a deadline
\* miss, and simulate_sas returns NULL.
C12_Test3CustomSchedulable ==
    entry = TEST3 =>
        /\ pc = "custom_sim" =>
              /\ IsTest3Config
              /\ Pcps(ts) = Vec(5, 3, 25, 35)
              /\ t <= ts.hyper_period + 1
              /\ sas_step(ts, t).ret = NULL
        /\ pc = "done" => ret = NULL /\ t = ts.hyper_period + 1

\* The driver's own call of simulate_sas has returned NULL after the
\* iteration at t = 187220.
C12_Witness ==
    /\ entry = TEST3 /\ pc = "done" /\ ret = NULL
    /\ IsTest3Config
    /\ Pcps(ts) = Vec(5, 3, 25, 35)
    /\ t = 187221

(***************************************************************************)
(* Task sets outside the expected range, checked under SpecSearch.         *)
(***************************************************************************)

\* Some task has a wcet above its period.
HasOverlongTask == \E i \in TaskIds : ts.tasks[i].wcet > ts.tasks[i].period

RECURSIVE VerdictOf(_, _, _, _)
VerdictOf(On, last, rem, now) ==
    IF now > ts.hyper_period THEN NULL
    ELSE LET Due(i) == last[i] < 0 \/ now - last[i] >= ts.tasks[i].period
             Missing == {i \in On : rem[i] > 0 /\ Due(i)}
             last2 == [i \in On |-> IF Due(i) THEN now ELSE last[i]]
             rem2 == [i \in On |-> IF Due(i) THEN ts.tasks[i].wcet ELSE rem[i]]
             Act == {i \in On : rem2[i] > 0}
             P(i) == IF now - last2[i] < ts.tasks[i].phase_change_point
                     THEN ts.tasks[i].phase_1_prio
                     ELSE ts.tasks[i].phase_2_prio
             Best == {i \in Act : \A j \in Act :
                         P(i) < P(j) \/ (P(i) = P(j) /\ i <= j)}
         IN  IF Missing # {} THEN SetMin(Missing)
             ELSE The({VerdictOf(On, l, r, now + 1) :
                        l \in {last2},
                        r \in {[i \in On |-> IF i \in Best THEN rem2[i] - 1
                                                           ELSE rem2[i]]}})

VerdictWithout(k) ==
    VerdictOf(TaskIds \ {k}, [i \in TaskIds \ {k} |-> -1],
              [i \in TaskIds \ {k} |-> -1], 0)

\* C17: a task with wcet = 0 is, in every state of simulate_sas after the
\* reset, not active, has executed in no tick and is not the task returned,
\* and the value returned is the verdict for the other three tasks alone.
C17_NoWorkTaskIgnored ==
    (entry = "simulate_sas" /\ pc \in {"loop", "done"}) =>
        \A k \in TaskIds : ts.tasks[k].wcet = 0 =>
            /\ ts.tasks[k].remaining_wcet <= 0
            /\ \A u \in 1..Len(trace) : trace[u] # k
            /\ ret # k
            /\ pc = "done" => ret = VerdictWithout(k)

\* A schedulable run in which a task without work has a new job due at
\* every tick while the other three tasks use every tick up to the last
\* release.
C17_Witness ==
    /\ entry = "simulate_sas" /\ pc = "done" /\ ret = NULL
    /\ ts.tasks[2].wcet = 0 /\ ts.tasks[2].period = 1
    /\ \A i \in TaskIds \ {2} : ts.tasks[i].wcet > 0
    /\ \A u \in 1..ts.hyper_period : trace[u] # NULL

(***************************************************************************)
(* The remaining execution during a run of simulate_sas, checked under     *)
(* Spec.                                                                   *)
(***************************************************************************)

\* C18 (amended): from the reset to the return of simulate_sas every task
\* has remaining_wcet >= -1; it is -1 exactly from the reset until the
\* first iteration of the loop has released the task's first job, and lies
\* in 0..wcet afterwards.  The task a tick executes has remaining_wcet > 0
\* after the releases of the tick, a tick executes nothing only when no
\* task has, and a task reported as missing has remaining_wcet > 0.
C18_RemainingAtLeastMinusOne ==
    [][entry = "simulate_sas" =>
        /\ \A i \in TaskIds :
              /\ ts'.tasks[i].remaining_wcet >= -1
              /\ ts'.tasks[i].remaining_wcet = -1 <=> t' = 0
              /\ t' > 0 => ts'.tasks[i].remaining_wcet \in 0..ts.tasks[i].wcet
        /\ t' = t + 1 =>
              /\ trace'[t'] # NULL => RemAfterRelease(trace'[t']) > 0
              /\ trace'[t'] = NULL =>
                    \A i \in TaskIds : RemAfterRelease(i) <= 0
        /\ (pc' = "done" /\ ret' # NULL) =>
              ts.tasks[ret'].remaining_wcet > 0
    ]_vars

\* C18 as stated: remaining_wcet >= 0 in every state from the reset to the
\* return.
C18_RemainingNonNegative ==
    (entry = "simulate_sas" /\ pc \in {"loop", "done"}) =>
        \A i \in TaskIds : ts.tasks[i].remaining_wcet >= 0

\* The loop is running with a finished job, an unfinished one and a task
\* without work.
C18_Witness ==
    /\ entry = "simulate_sas" /\ pc = "loop" /\ t > 0
    /\ \E i, j, k \in TaskIds :
          /\ ts.tasks[i].wcet > 0 /\ ts.tasks[i].remaining_wcet = 0
          /\ ts.tasks[j].remaining_wcet > 0
          /\ ts.tasks[k].wcet = 0 /\ ts.tasks[k].remaining_wcet = 0

(***************************************************************************)
(* The range of the phase change points, checked under SpecSearch.         *)
(***************************************************************************)

\* C19: in every state in which test_all_phase_change_points or
\* test_fdms_phase_change_points calls simulate_sas, and in the state each
\* returns in, every task has 0 <= phase_change_point <= period; from one
\* simulation of FDMS to the next, and to its return, no phase change point
\* increases.
C19_PointsInRange ==
    [][/\ pc' \in {"loop", "body", "done"} =>
            \A i \in TaskIds :
                ts'.tasks[i].phase_change_point \in 0..ts'.tasks[i].period
       /\ (entry = "test_fdms_phase_change_points" /\ pc = "loop") =>
            \A i \in TaskIds :
                ts'.tasks[i].phase_change_point <= ts.tasks[i].phase_change_point
    ]_vars

\* FDMS is about to simulate with one phase change point at 0, one at 1 and
\* one still at a period of at least 3.
C19_Witness ==
    /\ entry = "test_fdms_phase_change_points" /\ pc = "loop"
    /\ \E i, j, k \in TaskIds :
          /\ ts.tasks[i].phase_change_point = 0
          /\ ts.tasks[j].phase_change_point = 1 /\ ts.tasks[j].period > 1
          /\ ts.tasks[k].phase_change_point = ts.tasks[k].period
          /\ ts.tasks[k].period >= 3

(***************************************************************************)
(* SpecSearches: a driver calls any of the searches.                       *)
(***************************************************************************)
InitSearches == InitSearch \/ InitPrio

NextSearches == NextSearch \/ NextPrio

SpecSearches == InitSearches /\ [][NextSearches]_vars

\* Some phase change points within [0, period] make the task set s
\* schedulable.
SchedulableFor(s) ==
    \E c0 \in 0..s.tasks[0].period, c1 \in 0..s.tasks[1].period,
       c2 \in 0..s.tasks[2].period, c3 \in 0..s.tasks[3].period :
        simulate_sas(WithPcp(s, c0, c1, c2, c3)).ret = NULL

\* The phase change point vectors that precede those of ts in the order of
\* the nested loops.
EarlierPoints ==
    {c \in [TaskIds -> 0..ts.hyper_period] :
        /\ \A i \in TaskIds : c[i] <= ts.tasks[i].period
        /\ ((c[0] * (ts.tasks[1].period + 1) + c[1])
                * (ts.tasks[2].period + 1) + c[2])
                * (ts.tasks[3].period + 1) + c[3] < LexIndex}

\* The task set ts with the eight priorities of q, phase 2 priorities first
\* or phase 1 priorities first.
WithPhase2First(q) ==
    [ts EXCEPT !.tasks = [i \in TaskIds |->
        [ts.tasks[i] EXCEPT !.phase_2_prio = q[i + 1],
                            !.phase_1_prio = q[i + 1 + NUM_TASKS]]]]
WithPhase1First(q) ==
    [ts EXCEPT !.tasks = [i \in TaskIds |->
        [ts.tasks[i] EXCEPT !.phase_1_prio = q[i + 1],
                            !.phase_2_prio = q[i + 1 + NUM_TASKS]]]]

\* The bijections of the eight slots onto 0..7, as sequences.
AllAssignments ==
    {[k \in 1..NUM_PRIOS |-> f[k - 1]] : f \in Permutations(0..(NUM_PRIOS - 1))}

RmRank(q) ==
    CombRank({q[k] : k \in 1..NUM_TASKS}) * Fact(NUM_TASKS)
        + RankFrom(q, NUM_TASKS + 1)

\* C20: a search that returns 1 returns in a state in which simulate_sas
\* on the task set gives NULL; the phase change points are the first
\* schedulable vector, in the order of the nested loops, for the priorities
\* held; in the priority searches the priorities are those of the first
\* assignment, in the order of generation, that has a schedulable vector;
\* the counters show that nothing was generated after it, and no step
\* follows.
C20_StopsAtFirstSuccess ==
    (pc = "done" /\ ret = 1 /\ entry # "test_fdms_phase_change_points") =>
        /\ simulate_sas(ts).ret = NULL
        /\ \A i \in TaskIds :
              ts.tasks[i].phase_change_point \in 0..ts.tasks[i].period
        /\ \A c \in EarlierPoints :
              simulate_sas(WithPcp(ts, c[0], c[1], c[2], c[3])).ret # NULL
        /\ entry = "test_all_phase_change_points" =>
              generated_combinations = LexIndex + 1
        /\ entry = ALL =>
              /\ IsBijection(Phase2First)
              /\ generated_permutations = RankFrom(Phase2First, 1) + 1
              /\ \A q \in AllAssignments :
                    RankFrom(q, 1) < RankFrom(Phase2First, 1) =>
                        ~SchedulableFor(WithPhase2First(q))
        /\ entry = RM =>
              /\ IsBijection(Phase1First)
              /\ \A i \in 0..(NUM_TASKS - 2) : Prio1(i) < Prio1(i + 1)
              /\ generated_permutations = RmRank(Phase1First) + 1
              /\ \A q \in AllAssignments :
                    (/\ \A k \in 1..(NUM_TASKS - 1) : q[k] < q[k + 1]
                     /\ RmRank(q) < RmRank(Phase1First)) =>
                        ~SchedulableFor(WithPhase1First(q))
        /\ ~ENABLED NextSearches

\* The rate monotonic search returned 1 at a later assignment than the
\* first, on a later vector of phase change points than the first.
C20_Witness ==
    /\ entry = RM /\ pc = "done" /\ ret = 1
    /\ generated_permutations > 1
    /\ LexIndex > 0

(***************************************************************************)
(* The schedule beyond the hyper-period, checked under Spec.               *)
(***************************************************************************)

\* The task set with every release instant moved by d.
Shifted(s, d) ==
    [s EXCEPT !.tasks = [i \in TaskIds |->
        [s.tasks[i] EXCEPT !.last_release_time = @ + d]]]

\* The per-tick rules of simulate_sas (miss check, releases, execution)
\* applied from time now up to and including time last: no deadline miss.
RECURSIVE NoMissUntil(_, _, _)
NoMissUntil(s, now, last) ==
    IF now > last THEN TRUE
    ELSE IF first_missed_deadline(s, now) # NULL THEN FALSE
    ELSE The({NoMissUntil(nxt, now + 1, last) : nxt \in {sas_tick(s, now)}})

\* C21: when simulate_sas returns NULL, that is when its loop passes the miss
\* check of t = hyper_period, every task has remaining execution 0 before
\* the releases of that tick and every task releases a job at that tick; the
\* task set after these releases is the task set after the releases of t = 0
\* with the release instants moved by hyper_period; and the same per-tick
\* rules continued up to 2 * hyper_period report no deadline miss.
C21_PeriodicAtHyperPeriod ==
    [][(entry = "simulate_sas" /\ pc = "loop"
            /\ t = ts.hyper_period /\ t' = t + 1) =>
        /\ \A i \in TaskIds : ts.tasks[i].remaining_wcet = 0
        /\ \A i \in TaskIds :
              /\ can_release(ts.tasks[i], t)
              /\ ts'.tasks[i].last_release_time = t
        /\ release_ready_tasks(ts, t) =
              Shifted(release_ready_tasks(reset_simulation_state(ts), 0), t)
        /\ NoMissUntil(ts, t, 2 * ts.hyper_period)
    ]_vars

\* A run of four tasks with work, one of which released several jobs, has
\* passed the tick of t = hyper_period.
C21_Witness ==
    /\ entry = "simulate_sas" /\ pc = "loop"
    /\ t = ts.hyper_period + 1
    /\ \A i \in TaskIds : ts.tasks[i].wcet > 0
    /\ \E i \in TaskIds : ts.tasks[i].period < ts.hyper_period
    /\ \A i \in TaskIds : ts.tasks[i].last_release_time = ts.hyper_period

(***************************************************************************)
(* Phase change points at the period and at 0, checked under Spec.         *)
(***************************************************************************)

\* The verdict of fixed-priority scheduling of the task set ts with the
\* priorities prio (lower number is higher priority, the lower index wins
\* among equals): every task releases a job at each multiple of its period,
\* an unfinished job at its deadline is a miss, and the task reported is the
\* lowest-indexed one that misses at the earliest such instant up to
\* hyper_period, or NULL.
RECURSIVE FixedPrioVerdict(_, _, _)
FixedPrioVerdict(prio, rem, now) ==
    IF now > ts.hyper_period THEN NULL
    ELSE LET Due(i) == now % ts.tasks[i].period = 0
             Missing == {i \in TaskIds : rem[i] > 0 /\ Due(i)}
             rem2 == [i \in TaskIds |->
                        IF Due(i) THEN ts.tasks[i].wcet ELSE rem[i]]
             Act == {i \in TaskIds : rem2[i] > 0}
             Best == {i \in Act : \A j \in Act :
                         prio[i] < prio[j] \/ (prio[i] = prio[j] /\ i <= j)}
         IN  IF Missing # {} THEN SetMin(Missing)
             ELSE The({FixedPrioVerdict(prio, r, now + 1) :
                        r \in {[i \in TaskIds |->
                                  IF i \in Best THEN rem2[i] - 1 ELSE rem2[i]]}})

FixedPrioPhase1 ==
    FixedPrioVerdict([i \in TaskIds |-> ts.tasks[i].phase_1_prio],
                     [i \in TaskIds |-> 0], 0)

FixedPrioPhase2 ==
    FixedPrioVerdict([i \in TaskIds |-> ts.tasks[i].phase_2_prio],
                     [i \in TaskIds |-> 0], 0)

AllPointsAtPeriod ==
    \A i \in TaskIds : ts.tasks[i].phase_change_point = ts.tasks[i].period

AllPointsAtZero == \A i \in TaskIds : ts.tasks[i].phase_change_point = 0

\* C22: in every tick of simulate_sas, after the releases, a task whose
\* phase change point equals its period is in phase 1 (the time since its
\* last release is below the point and get_priority yields phase_1_prio)
\* and a task whose phase change point is 0 is in phase 2; and the value
\* simulate_sas returns is the verdict of fixed-priority scheduling with the
\* phase 1 priorities when every point equals the period, and with the
\* phase 2 priorities when every point is 0.
C22_PointsAtPeriodOrZero ==
    [][/\ (entry = "simulate_sas" /\ pc = "loop" /\ t' = t + 1) =>
            \A i \in TaskIds :
                LET task == ts'.tasks[i]
                    point == task.phase_change_point
                IN  /\ point = task.period =>
                          /\ t - task.last_release_time < point
                          /\ get_priority(task, t) = task.phase_1_prio
                    /\ point = 0 =>
                          /\ ~(t - task.last_release_time < point)
                          /\ get_priority(task, t) = task.phase_2_prio
       /\ (entry = "simulate_sas" /\ pc = "loop" /\ pc' = "done") =>
            /\ AllPointsAtPeriod => ret' = FixedPrioPhase1
            /\ AllPointsAtZero => ret' = FixedPrioPhase2
    ]_vars

\* A run with every phase change point at the period has returned, past the
\* first period of some task, a value that fixed-priority scheduling with
\* the phase 2 priorities does not yield.
C22_Witness ==
    /\ entry = "simulate_sas" /\ pc = "done"
    /\ AllPointsAtPeriod
    /\ \E i \in TaskIds : ts.tasks[i].period < t
    /\ ret = FixedPrioPhase1
    /\ ret # FixedPrioPhase2

(***************************************************************************)
(* SpecFdms: a driver calls test_fdms_phase_change_points.  Every          *)
(* iteration of the while loop of simulate_sas is a step, and trace        *)
(* records, for each call of simulate_sas that has returned, the number of *)
(* loop iterations that call started.                                      *)
(***************************************************************************)
FDMS == "test_fdms_phase_change_points"

\* The iterations the while loop of simulate_sas has started when it
\* leaves at time now: the one that reports a miss counts.
sas_iterations(s, now) == IF sas_loop_cond(s, now) THEN now + 1 ELSE now

\* <<wcets, periods>>: the task sets of the other drivers and one on which
\* the policy decreases thirteen times before it fails.
FdmsTaskSets == TaskSets \cup { <<Vec(2, 1, 1, 1), Vec(3, 3, 4, 4)>> }

InitFdms ==
    /\ \E tp \in FdmsTaskSets, pr \in PrioChoices,
          c \in {0, MaxPcp}, l \in LeftoverValues :
          ts = make_taskset(tp[1], tp[2], pr[1], pr[2], Vec(c, c, c, c), l, l)
    /\ entry = FDMS
    /\ pc = "call"
    /\ t = 0
    /\ ret = NULL
    /\ trace = <<>>
    /\ generated_combinations = 0
    /\ total_combinations = 0
    /\ generated_permutations = 0

\* test_fdms_phase_change_points up to its first call of simulate_sas,
\* which resets the simulation state.
FdmsStepCall ==
    /\ entry = FDMS /\ pc = "call"
    /\ ts' = reset_simulation_state(fdms_init(ts))
    /\ t' = 0
    /\ pc' = "sim"
    /\ UNCHANGED <<entry, ret, trace, generated_combinations,
                   total_combinations, generated_permutations>>

\* An iteration of the while loop of simulate_sas that runs to t++.
FdmsStepTick ==
    /\ entry = FDMS /\ pc = "sim"
    /\ sas_step(ts, t).tick
    /\ ts' = sas_tick(ts, t)
    /\ t' = t + 1
    /\ UNCHANGED <<entry, pc, ret, trace, generated_combinations,
                   total_combinations, generated_permutations>>

\* simulate_sas returns a task whose phase change point is positive: the
\* point is decreased and simulate_sas is called again.
FdmsStepDecrease ==
    /\ entry = FDMS /\ pc = "sim"
    /\ ~sas_step(ts, t).tick
    /\ \E it \in {fdms_iteration([ts |-> ts, ret |-> sas_step(ts, t).ret])} :
          /\ it.pc = "loop"
          /\ ts' = reset_simulation_state(it.ts)
    /\ t' = 0
    /\ trace' = Append(trace, sas_iterations(ts, t))
    /\ UNCHANGED <<entry, pc, ret, generated_combinations,
                   total_combinations, generated_permutations>>

\* simulate_sas returns NULL, or a task whose phase change point is 0:
\* test_fdms_phase_change_points returns.
FdmsStepReturn ==
    /\ entry = FDMS /\ pc = "sim"
    /\ ~sas_step(ts, t).tick
    /\ \E it \in {fdms_iteration([ts |-> ts, ret |-> sas_step(ts, t).ret])} :
          /\ it.pc = "done"
          /\ ts' = it.ts
          /\ ret' = it.ret
    /\ pc' = "done"
    /\ trace' = Append(trace, sas_iterations(ts, t))
    /\ UNCHANGED <<entry, t, generated_combinations,
                   total_combinations, generated_permutations>>

NextFdms == FdmsStepCall \/ FdmsStepTick \/ FdmsStepDecrease \/ FdmsStepReturn

SpecFdms == InitFdms /\ [][NextFdms]_vars

\* The program runs on: a step that can be taken is taken.
SpecFdmsFair == SpecFdms /\ WF_vars(NextFdms)

(***************************************************************************)
(* Termination of test_fdms_phase_change_points, checked under             *)
(* SpecFdmsFair.                                                           *)
(***************************************************************************)

\* The calls of simulate_sas made so far, the running one included.
SimulateCalls == Len(trace) + (IF pc = "sim" THEN 1 ELSE 0)

SumOfPeriods ==
    ts.tasks[0].period + ts.tasks[1].period
        + ts.tasks[2].period + ts.tasks[3].period

\* C23: test_fdms_phase_change_points returns; it never makes more than
\* (sum of the four periods) + 1 calls of simulate_sas, and no call of
\* simulate_sas starts more than hyper_period + 1 iterations of its loop.
C23_FdmsTerminates ==
    /\ [](entry = FDMS =>
            /\ SimulateCalls <= SumOfPeriods + 1
            /\ \A k \in 1..Len(trace) : trace[k] <= ts.hyper_period + 1
            /\ t <= ts.hyper_period + 1
            /\ pc = "done" => ret \in {0, 1})
    /\ <>(pc = "done")

\* The function has returned 0 after as many calls as the periods sum to:
\* three phase change points were brought down to 0 and the fourth to 1, and
\* the first call ran past the first deadlines.
C23_Witness ==
    /\ entry = FDMS /\ pc = "done" /\ ret = 0
    /\ Len(trace) = SumOfPeriods
    /\ Len(trace) > 10
    /\ trace[1] > 3

(***************************************************************************)
(* SpecAll: a driver calls simulate_sas or any of the searches.            *)
(***************************************************************************)
InitAll == Init \/ InitSearches

NextAll == Next \/ NextSearches

SpecAll == InitAll /\ [][NextAll]_vars

(***************************************************************************)
(* The fields each operation writes, checked under SpecAll.                *)
(***************************************************************************)

\* The fields of task i of the task set s that are named in F.
Fields(s, i, F) == [f \in F |-> s.tasks[i][f]]

\* The task sets s1 and s2 agree on hyper_period and on the fields F of
\* every task.
SameOn(s1, s2, F) ==
    /\ s1.hyper_period = s2.hyper_period
    /\ \A i \in TaskIds : Fields(s1, i, F) = Fields(s2, i, F)

\* C24: a step of simulate_sas leaves wcet, period, phase_1_prio,
\* phase_2_prio, phase_change_point and hyper_period as they are; a step of
\* test_fdms_phase_change_points or test_all_phase_change_points leaves
\* wcet, period, phase_1_prio, phase_2_prio and hyper_period as they are;
\* a step of either priority search leaves wcet, period and hyper_period as
\* they are.
C24_FieldsWritten ==
    [][/\ entry = "simulate_sas" =>
            SameOn(ts, ts', {"wcet", "period", "phase_1_prio",
                             "phase_2_prio", "phase_change_point"})
       /\ entry \in {"test_fdms_phase_change_points",
                     "test_all_phase_change_points"} =>
            SameOn(ts, ts', {"wcet", "period", "phase_1_prio",
                             "phase_2_prio"})
       /\ entry \in {ALL, RM} => SameOn(ts, ts', {"wcet", "period"})
    ]_vars

\* The RM search has returned 1 after several assignments: the priorities,
\* which the driver left equal, are a rate monotonic assignment, the
\* simulation that succeeded released every task at the hyper-period, and
\* wcet, period and hyper_period are those the driver set.
C24_Witness ==
    /\ entry = RM /\ pc = "done" /\ ret = 1
    /\ generated_permutations > 1
    /\ \A i \in TaskIds \ {0} : Prio1(i - 1) < Prio1(i)
    /\ \A i \in TaskIds : ts.tasks[i].last_release_time = ts.hyper_period
    /\ \E tp \in PrioTaskSets :
          /\ \A i \in TaskIds : /\ ts.tasks[i].wcet = tp[1][i]
                                /\ ts.tasks[i].period = tp[2][i]
          /\ ts.hyper_period = hyper_period(tp[2])

(***************************************************************************)
(* SpecTotal: the computation of total_combinations at the start of        *)
(* test_all_phase_change_points (lines 287-290), for periods whose factors *)
(* (period + 1) multiply to values on both sides of INT_MAX.  The loops    *)
(* that follow are not run here.                                           *)
(*                                                                         *)
(* The three multiplications are int multiplications; the result is        *)
(* widened to long only afterwards.  A multiplication whose exact result   *)
(* exceeds INT_MAX is undefined behaviour.  The outcomes modelled are the  *)
(* two that builds produce: the 32-bit machine multiplication, which keeps *)
(* the low 32 bits, and a trap that ends the program (-ftrapv).            *)
(***************************************************************************)
LargePeriods == {1, 3, 255, 32767, 65535}

\* The multiplications of line 287-290 from the factor of task i on, with
\* acc the exact value of the product so far: none overflows.
RECURSIVE product_defined(_, _, _)
product_defined(s, i, acc) ==
    IF i >= NUM_TASKS THEN TRUE
    ELSE /\ acc <= INT_MAX \div (s.tasks[i].period + 1)
         /\ product_defined(s, i + 1, acc * (s.tasks[i].period + 1))

total_combinations_defined(s) ==
    product_defined(s, 1, s.tasks[0].period + 1)

\* What the initialisation of total_combinations can yield.
total_combinations_outcomes(s) ==
    IF total_combinations_defined(s)
    THEN {[pc |-> "computed", value |-> total_combinations_of(s)]}
    ELSE {[pc |-> "computed", value |-> total_combinations_of(s)],
          [pc |-> "trapped", value |-> 0]}

InitTotal ==
    /\ \E p0 \in LargePeriods, p1 \in LargePeriods,
          p2 \in LargePeriods, p3 \in LargePeriods :
          ts = make_taskset(Vec(2, 1, 1, 1), Vec(p0, p1, p2, p3),
                            Vec(4, 5, 6, 7), Vec(0, 1, 2, 3),
                            Vec(0, 0, 0, 0), -1, -1)
    /\ entry = "test_all_phase_change_points"
    /\ pc = "call"
    /\ t = 0
    /\ ret = NULL
    /\ trace = <<>>
    /\ generated_combinations = 0
    /\ total_combinations = 0
    /\ generated_permutations = 0

\* const long total_combinations = ...; without overflow.
TotalComputed ==
    /\ entry = "test_all_phase_change_points" /\ pc = "call"
    /\ total_combinations_defined(ts)
    /\ \E o \in total_combinations_outcomes(ts) :
          /\ pc' = o.pc
          /\ total_combinations' = o.value
    /\ UNCHANGED <<ts, entry, t, ret, trace, generated_combinations,
                   generated_permutations>>

\* const long total_combinations = ...; with a multiplication that
\* overflows.
TotalOverflowed ==
    /\ entry = "test_all_phase_change_points" /\ pc = "call"
    /\ ~total_combinations_defined(ts)
    /\ \E o \in total_combinations_outcomes(ts) :
          /\ pc' = o.pc
          /\ total_combinations' = o.value
    /\ UNCHANGED <<ts, entry, t, ret, trace, generated_combinations,
                   generated_permutations>>

NextTotal == TotalComputed \/ TotalOverflowed

SpecTotal == InitTotal /\ [][NextTotal]_vars

(***************************************************************************)
(* The value of total_combinations, checked under SpecTotal.               *)
(***************************************************************************)

\* x is the product of the factors (period + 1) of the tasks i..3 of ts.
\* Stated by division, because the product itself can exceed every int.
RECURSIVE IsProductFrom(_, _)
IsProductFrom(x, i) ==
    IF i >= NUM_TASKS THEN x = 1
    ELSE /\ x > 0
         /\ x % (ts.tasks[i].period + 1) = 0
         /\ IsProductFrom(x \div (ts.tasks[i].period + 1), i + 1)

\* C25: for every task set with positive int periods the initialisation of
\* total_combinations ends with total_combinations equal to the
\* mathematical product of the four factors (period_i + 1).
C25_TotalEqualsProduct ==
    (entry = "test_all_phase_change_points" /\ pc \in {"computed", "trapped"}) =>
        /\ pc = "computed"
        /\ IsProductFrom(total_combinations, 0)

\* C25, within the range of int: when no multiplication overflows,
\* total_combinations is the mathematical product.
C25_TotalEqualsProductInRange ==
    (entry = "test_all_phase_change_points" /\ pc \in {"computed", "trapped"}
        /\ total_combinations_defined(ts)) =>
        /\ pc = "computed"
        /\ IsProductFrom(total_combinations, 0)

\* Periods 65535, 32767, 1, 1: the product 65536 * 32768 * 2 * 2 is 2^33,
\* and the machine multiplications have left 0 in total_combinations.
C25_Witness ==
    /\ entry = "test_all_phase_change_points" /\ pc = "computed"
    /\ [i \in TaskIds |-> ts.tasks[i].period] = Vec(65535, 32767, 1, 1)
    /\ total_combinations = 0

====
